---- MODULE Spec2Model ----
(***************************************************************************)
(* A model of the PenTest agent backend (src/agent_backend.py) and of its  *)
(* settings loader (src/config.py).                                        *)
(*                                                                         *)
(* Three specifications are defined:                                       *)
(*   Spec        callers of PenTestAgent.handle_command may overlap; a     *)
(*               call is split at its blocking external calls (the         *)
(*               orchestrator invocation, doc_ref.get, doc_ref.set).       *)
(*   SerialSpec  the same steps, but a call starts only when no other      *)
(*               call is in flight.                                        *)
(*   ConfigSpec  Settings.from_env applied to bounded environments.        *)
(*                                                                         *)
(* datetime.now() is read from `clock`, which advances by one each time a  *)
(* call starts, so the timestamps of a behaviour never decrease and two    *)
(* calls that start together can read the same time.                       *)
(***************************************************************************)
EXTENDS Integers, Sequences, FiniteSets, TLC

VARIABLES
    vector_store,     \* self.vector_store: "Chroma" or "None"
    db,               \* self.db: "client" or "None"
    tools,            \* self.tools: sequence of tool names
    knowledge,        \* texts held by the vector store
    store,            \* Firestore collection 'engagements': name -> snapshot
    clock,            \* datetime.now(); advances when a call starts
    pc,               \* position of each caller inside handle_command
    command,          \* argument `command` of the caller's current call
    engagement_name,  \* argument `engagement_name` of the caller's current call
    output,           \* result['output'] of the orchestrator
    doc,              \* local `doc` of _save_interaction
    interactions,     \* local `interactions` of _save_interaction
    result,           \* value returned by handle_command
    stdout,           \* last line printed by the call
    observation,      \* last value a tool returned to the orchestrator
    readVersion,      \* history: number of set() calls the read document had seen
    log,              \* history: per name, the calls whose set() succeeded, in order
    environ,          \* os.environ
    dotenv,           \* contents of the .env file
    disk,             \* paths that exist on disk
    cfg_pc,           \* position inside Settings.from_env
    cfg_out           \* outcome of Settings.from_env

agentVars == <<vector_store, db, tools, knowledge, store, clock, pc, command,
               engagement_name, output, doc, interactions, result, stdout,
               observation, readVersion, log>>
cfgVars == <<environ, dotenv, disk, cfg_pc, cfg_out>>
vars == <<agentVars, cfgVars>>

-----------------------------------------------------------------------------
(* Bounds and input domains *)

\* handle_command calls started in a behaviour
MaxCalls == 2
\* texts the vector store can hold
MaxDocs == 1

\* the callers of handle_command
Procs == {"p1", "p2"}
\* the engagement names, also the arguments the orchestrator hands to tools
Names == {"e1", "e2"}
\* the command texts
Commands == {"c1", "c2"}
\* the answers of the orchestrator
Outputs == {"r1", "r2"}
\* the answers of the orchestrator when calls overlap (Spec)
ConcOutputs == {"r1"}
\* the documents handed to add_knowledge
Texts == {"d1"}
\* what self.agent_executor.invoke raises
Exceptions == {"LLMError"}

-----------------------------------------------------------------------------
(* Small helpers *)

Range(s) == {s[i] : i \in 1..Len(s)}

IsPrefix(s, t) == Len(s) <= Len(t) /\ SubSeq(t, 1, Len(s)) = s

Min(a, b) == IF a <= b THEN a ELSE b

-----------------------------------------------------------------------------
(* Firestore documents and _save_interaction *)

NoDoc == [exists |-> FALSE]

Snapshot(data) == [exists |-> TRUE, data |-> data]

\* a document reference that ignores the engagement name
DocRefFixed(name) == "e1"

\* doc_ref = self.db.collection('engagements').document(engagement_name)
DocRef(name) == name

\* the read that forgets what the record held
ExistingInteractionsDropped(d) == <<>>

\* interactions = data.get('interactions', []) if doc.exists else []
ExistingInteractions(d) == IF d.exists THEN d.data.interactions ELSE <<>>

NewInteraction(ts, cmd, resp) ==
    [timestamp |-> ts, command |-> cmd, response |-> resp]

\* the append that stores the response as the command and the command as the
\* response
AppendInteractionSwapped(ints, ts, cmd, resp) ==
    Append(ints, NewInteraction(ts, resp, cmd))

\* the append that runs twice
AppendInteractionTwice(ints, ts, cmd, resp) ==
    Append(Append(ints, NewInteraction(ts, cmd, resp)),
           NewInteraction(ts, cmd, resp))

\* interactions.append({...})
AppendInteraction(ints, ts, cmd, resp) ==
    Append(ints, NewInteraction(ts, cmd, resp))

\* the dictionary that holds the new Interaction alone
NewRecordOnlyLast(name, ints, ts) ==
    [engagement_name |-> name, interactions |-> <<ints[Len(ints)]>>,
     last_updated |-> ts]

\* the dictionary handed to doc_ref.set
NewRecord(name, ints, ts) ==
    [engagement_name |-> name, interactions |-> ints, last_updated |-> ts]

\* `if self.db:`
DbAvailable(d) == d # "None"

\* _save_interaction without its `except Exception`
SaveInteractionReraises(failed) == failed

\* whether a failed Firestore call escapes _save_interaction: its
\* `except Exception` prints a warning and swallows the failure
SaveInteractionRaises(failed) == FALSE

-----------------------------------------------------------------------------
(* Results of handle_command *)

NoResult == [pending |-> TRUE]

SuccessResult(out, name, ts) ==
    [success |-> TRUE, response |-> out, engagement |-> name, timestamp |-> ts]

ErrorMsg(e) == <<"Error processing command: ", e>>

FailureResult(e, name, ts) ==
    [success |-> FALSE, error |-> ErrorMsg(e), engagement |-> name,
     timestamp |-> ts]

\* an except clause too narrow for what the orchestrator raises
ExceptionCaughtNarrow(e) == e \notin Exceptions

\* `except Exception as e:` of handle_command
ExceptionCaught(e) == TRUE

-----------------------------------------------------------------------------
(* The tool registry (_initialize_tools) *)

TopK == 3

Text(kind, payload) == [raised |-> FALSE, kind |-> kind, payload |-> payload]

Raised(e) == [raised |-> TRUE, error |-> e]

NoObservation == [none |-> TRUE]

\* self.vector_store.similarity_search(query, k=3)
SimilaritySearch(kb, query, k) == SubSeq(kb, 1, Min(k, Len(kb)))

\* knowledge_search without its try/except
knowledge_search_unguarded(query, kb, failed) ==
    IF failed
    THEN Raised("VectorStoreError")
    ELSE LET docs == SimilaritySearch(kb, query, TopK)
         IN  IF docs # <<>>
             THEN Text("Knowledge Base Results:", docs)
             ELSE Text("No relevant information found in knowledge base.", <<>>)

\* knowledge_search: `failed` says that the vector store call raised
knowledge_search(query, kb, failed) ==
    IF failed
    THEN Text("Error searching knowledge base: ", "VectorStoreError")
    ELSE LET docs == SimilaritySearch(kb, query, TopK)
         IN  IF docs # <<>>
             THEN Text("Knowledge Base Results:", docs)
             ELSE Text("No relevant information found in knowledge base.", <<>>)

vulnerability_scan(target) == Text("Vulnerability Scan Results for ", target)

\* get_engagement_context: `failed` says that doc_ref.get raised
get_engagement_context(name, d, st, failed) ==
    IF DbAvailable(d)
    THEN IF failed
         THEN Text("Error retrieving engagement data: ", "FirestoreError")
         ELSE IF st[DocRef(name)].exists
              THEN Text("Engagement Context:", st[DocRef(name)].data)
              ELSE Text("No existing data for engagement: ", name)
    ELSE Text("Firestore not available", <<>>)

ErrorKinds == {"Error searching knowledge base: ",
               "Error retrieving engagement data: "}

\* a registry that holds knowledge_search whatever the vector store is
InitializeToolsAlways(vs) ==
    <<"knowledge_search", "vulnerability_scan", "get_engagement_context">>

InitializeTools(vs) ==
    (IF vs # "None" THEN <<"knowledge_search">> ELSE <<>>)
        \o <<"vulnerability_scan", "get_engagement_context">>

\* Tool.func of the tool called `name`
ToolFunc(name, arg, failed) ==
    CASE name = "knowledge_search" -> knowledge_search(arg, knowledge, failed)
      [] name = "vulnerability_scan" -> vulnerability_scan(arg)
      [] name = "get_engagement_context" ->
            get_engagement_context(arg, db, store, failed)

\* whether the tool makes a backend call, which can fail
HasBackendCall(name) ==
    \/ name = "knowledge_search"
    \/ name = "get_engagement_context" /\ DbAvailable(db)

-----------------------------------------------------------------------------
(* Settings.from_env (src/config.py).  A string is the sequence of its       *)
(* "/"-separated segments, so "" is <<>> and "./cred.json" is                *)
(* <<".", "cred.json">>.                                                      *)

EnvNames == {"OPENAI_API_KEY", "FIREBASE_CREDENTIALS_PATH", "OPENAI_MODEL",
             "CHROMADB_PERSIST_DIR"}

Unset == [set |-> FALSE, val |-> <<>>]

Value(s) == [set |-> TRUE, val |-> s]

\* pathlib.Path(s): "." segments are dropped, so Path("") is Path(".")
Path(s) == [parts |-> SelectSeq(s, LAMBDA seg : seg # ".")]

\* Path.exists(): the current directory always exists
Exists(d, path) == path.parts = <<>> \/ path.parts \in d

\* load_dotenv(env_path): variables of the file that os.environ lacks are added
LoadDotenv(env, file) ==
    [v \in EnvNames |-> IF env[v].set THEN env[v] ELSE file[v]]

ConfigError(detail, name) ==
    [raised |-> TRUE, error |-> "ConfigError", detail |-> detail, name |-> name]

Returned(v) == [raised |-> FALSE, value |-> v]

\* _required that tests `is not None` instead of truthiness
RequiredAllowsEmpty(env, name) ==
    IF env[name].set
    THEN Returned(env[name].val)
    ELSE ConfigError("Missing required environment variable: ", name)

\* Settings._required
Required(env, name) ==
    IF env[name].set /\ env[name].val # <<>>
    THEN Returned(env[name].val)
    ELSE ConfigError("Missing required environment variable: ", name)

\* Settings._optional: os.getenv(name, default)
Optional(env, name, default) ==
    IF env[name].set THEN env[name].val ELSE default

DefaultModel == <<"gpt-4">>

DefaultChromaDir == <<".", "chroma_db">>

Settings(key, cred, model, dir) ==
    [openai_api_key |-> key, firebase_credentials_path |-> cred,
     openai_model |-> model, chromadb_persist_dir |-> dir]

\* Settings.from_env after load_dotenv
FromEnv(env, d) ==
    LET key == Required(env, "OPENAI_API_KEY")
        cred == Required(env, "FIREBASE_CREDENTIALS_PATH")
    IN  IF key.raised THEN key
        ELSE IF cred.raised THEN cred
        ELSE IF ~Exists(d, Path(cred.value))
        THEN ConfigError("FIREBASE_CREDENTIALS_PATH does not exist: ",
                         "FIREBASE_CREDENTIALS_PATH")
        ELSE Returned(Settings(
                 key.value,
                 Path(cred.value),
                 Optional(env, "OPENAI_MODEL", DefaultModel),
                 Path(Optional(env, "CHROMADB_PERSIST_DIR", DefaultChromaDir))))

KeyValues == {Unset, Value(<<>>), Value(<<"sk-1">>)}
CredValues == {Unset, Value(<<>>), Value(<<".", "cred.json">>),
               Value(<<"gone.json">>)}
ModelValues == {Unset, Value(<<>>), Value(<<"gpt-3.5">>)}
DirValues == {Unset, Value(<<".", "data">>)}

Environments ==
    {e \in [EnvNames -> KeyValues \cup CredValues \cup ModelValues \cup DirValues] :
        /\ e["OPENAI_API_KEY"] \in KeyValues
        /\ e["FIREBASE_CREDENTIALS_PATH"] \in CredValues
        /\ e["OPENAI_MODEL"] \in ModelValues
        /\ e["CHROMADB_PERSIST_DIR"] \in DirValues}

\* what a .env file sets a variable to
FileValue(name) ==
    CASE name = "OPENAI_API_KEY" -> Value(<<"sk-2">>)
      [] name = "FIREBASE_CREDENTIALS_PATH" -> Value(<<"cred.json">>)
      [] name = "OPENAI_MODEL" -> Value(<<"gpt-4o">>)
      [] name = "CHROMADB_PERSIST_DIR" -> Value(<<"data">>)

\* .env files: no file, or one that sets some of the variables
DotenvFiles ==
    {[v \in EnvNames |-> IF v \in set THEN FileValue(v) ELSE Unset] :
        set \in {{}, {"OPENAI_API_KEY"}, {"FIREBASE_CREDENTIALS_PATH"},
                 {"OPENAI_API_KEY", "FIREBASE_CREDENTIALS_PATH"},
                 {"OPENAI_MODEL", "CHROMADB_PERSIST_DIR"}}}

Disks == {{}, {<<"cred.json">>}}

NoOutcome == [none |-> TRUE]

CfgIdle ==
    /\ environ = [v \in EnvNames |-> Unset]
    /\ dotenv = [v \in EnvNames |-> Unset]
    /\ disk = {}
    /\ cfg_pc = "off"
    /\ cfg_out = NoOutcome

-----------------------------------------------------------------------------
(* Initial state: the agent after PenTestAgent.__init__ *)

Init ==
    /\ vector_store \in {"Chroma", "None"}
    /\ db \in {"client", "None"}
    /\ tools = InitializeTools(vector_store)
    /\ knowledge = <<>>
    /\ store = [n \in Names |-> NoDoc]
    /\ clock = 0
    /\ pc = [p \in Procs |-> "idle"]
    /\ command = [p \in Procs |-> "none"]
    /\ engagement_name = [p \in Procs |-> "none"]
    /\ output = [p \in Procs |-> "none"]
    /\ doc = [p \in Procs |-> NoDoc]
    /\ interactions = [p \in Procs |-> <<>>]
    /\ result = [p \in Procs |-> NoResult]
    /\ stdout = [p \in Procs |-> "none"]
    /\ observation = NoObservation
    /\ readVersion = [p \in Procs |-> 0]
    /\ log = [n \in Names |-> <<>>]
    /\ CfgIdle

-----------------------------------------------------------------------------
(* handle_command, split at its blocking external calls *)

Idle(p) == pc[p] \in {"idle", "done"}

\* The orchestrator's scratchpad is dropped when its invocation ends.
DropObservation(p) ==
    observation' = IF observation # NoObservation /\ observation.by = p
                   THEN NoObservation ELSE observation

\* A caller enters handle_command(command, engagement_name).
BeginCall(p, cmd, name) ==
    /\ Idle(p)
    /\ clock < MaxCalls
    /\ clock' = clock + 1
    /\ pc' = [pc EXCEPT ![p] = "invoke"]
    /\ command' = [command EXCEPT ![p] = cmd]
    /\ engagement_name' = [engagement_name EXCEPT ![p] = name]
    /\ result' = [result EXCEPT ![p] = NoResult]
    /\ stdout' = [stdout EXCEPT ![p] = "none"]
    /\ UNCHANGED <<vector_store, db, tools, knowledge, store, output, doc,
                   interactions, observation, readVersion, log, cfgVars>>

\* The same, for callers that take turns.
BeginCallSerial(p, cmd, name) ==
    /\ \A q \in Procs : Idle(q)
    /\ BeginCall(p, cmd, name)

\* The locals of the call die when it returns.
DropLocals(p) ==
    /\ output' = [output EXCEPT ![p] = "none"]
    /\ doc' = [doc EXCEPT ![p] = NoDoc]
    /\ interactions' = [interactions EXCEPT ![p] = <<>>]
    /\ readVersion' = [readVersion EXCEPT ![p] = 0]

\* An exception e leaves the try body of handle_command.
Except(p, e) ==
    /\ IF ExceptionCaught(e)
       THEN /\ pc' = [pc EXCEPT ![p] = "done"]
            /\ stdout' = [stdout EXCEPT ![p] = "Error processing command: "]
            /\ result' = [result EXCEPT ![p] =
                             FailureResult(e, engagement_name[p], clock)]
       ELSE /\ pc' = [pc EXCEPT ![p] = "raised"]
            /\ UNCHANGED <<stdout, result>>
    /\ DropLocals(p)

\* handle_command returns its success dictionary.
ReturnSuccess(p, out, line) ==
    /\ pc' = [pc EXCEPT ![p] = "done"]
    /\ stdout' = [stdout EXCEPT ![p] = line]
    /\ result' = [result EXCEPT ![p] =
                     SuccessResult(out, engagement_name[p], clock)]
    /\ DropLocals(p)

\* A Firestore call of _save_interaction raised.
SaveFault(p, out) ==
    IF SaveInteractionRaises(TRUE)
    THEN Except(p, "FirestoreError")
    ELSE ReturnSuccess(p, out, "Warning: Could not save to Firestore: ")

\* The orchestrator calls the i-th tool of the registry.
ToolCall(p, i, arg, failed) ==
    /\ pc[p] = "invoke"
    /\ i \in 1..Len(tools)
    /\ failed => HasBackendCall(tools[i])
    /\ LET r == ToolFunc(tools[i], arg, failed)
       IN  IF r.raised
           THEN /\ Except(p, "ToolError")
                /\ DropObservation(p)
           ELSE /\ observation' = [by |-> p, tool |-> tools[i],
                                   failed |-> failed, out |-> r]
                /\ UNCHANGED <<pc, stdout, result, output, doc, interactions,
                               readVersion>>
    /\ UNCHANGED <<vector_store, db, tools, knowledge, store, clock, command,
                   engagement_name, log, cfgVars>>

\* self.agent_executor.invoke(...) raises e.
InvokeRaise(p, e) ==
    /\ pc[p] = "invoke"
    /\ Except(p, e)
    /\ DropObservation(p)
    /\ UNCHANGED <<vector_store, db, tools, knowledge, store, clock, command,
                   engagement_name, log, cfgVars>>

\* self.agent_executor.invoke(...) returns result['output'] = out, and
\* _save_interaction runs up to and including doc = doc_ref.get().
InvokeReturn(p, out, failed) ==
    /\ pc[p] = "invoke"
    /\ failed => DbAvailable(db)
    /\ DropObservation(p)
    /\ IF ~DbAvailable(db)
       THEN ReturnSuccess(p, out, "none")
       ELSE IF failed
       THEN SaveFault(p, out)
       ELSE LET d == store[DocRef(engagement_name[p])]
            IN  /\ pc' = [pc EXCEPT ![p] = "write"]
                /\ output' = [output EXCEPT ![p] = out]
                /\ doc' = [doc EXCEPT ![p] = d]
                /\ interactions' = [interactions EXCEPT ![p] =
                       AppendInteraction(ExistingInteractions(d), clock,
                                         command[p], out)]
                /\ readVersion' = [readVersion EXCEPT ![p] =
                                      Len(log[DocRef(engagement_name[p])])]
                /\ UNCHANGED <<result, stdout>>
    /\ UNCHANGED <<vector_store, db, tools, knowledge, store, clock, command,
                   engagement_name, log, cfgVars>>

\* doc_ref.set({...}), then handle_command returns.
SaveWrite(p, failed) ==
    /\ pc[p] = "write"
    /\ IF failed
       THEN /\ SaveFault(p, output[p])
            /\ UNCHANGED <<store, log>>
       ELSE LET k == DocRef(engagement_name[p])
                rec == NewRecord(engagement_name[p], interactions[p], clock)
            IN  /\ store' = [store EXCEPT ![k] = Snapshot(rec)]
                /\ log' = [log EXCEPT ![k] =
                              Append(@, <<command[p], output[p]>>)]
                /\ ReturnSuccess(p, output[p],
                                 "Saved interaction to Firestore for engagement: ")
    /\ UNCHANGED <<vector_store, db, tools, knowledge, clock, command,
                   engagement_name, observation, cfgVars>>

\* add_knowledge(documents)
AddKnowledge(documents, failed) ==
    /\ Len(knowledge) + Len(documents) <= MaxDocs
    /\ IF vector_store = "None" \/ failed
       THEN knowledge' = knowledge
       ELSE knowledge' = knowledge \o documents
    /\ UNCHANGED <<vector_store, db, tools, store, clock, pc, command,
                   engagement_name, output, doc, interactions, result, stdout,
                   observation, readVersion, log, cfgVars>>

\* The steps of the callers; the orchestrator answers with a text of `outs`.
Steps(outs) ==
    \/ \E p \in Procs, i \in 1..3, arg \in Names, failed \in BOOLEAN :
          ToolCall(p, i, arg, failed)
    \/ \E p \in Procs, e \in Exceptions : InvokeRaise(p, e)
    \/ \E p \in Procs, out \in outs, failed \in BOOLEAN :
          InvokeReturn(p, out, failed)
    \/ \E p \in Procs, failed \in BOOLEAN : SaveWrite(p, failed)
    \/ \E d \in Texts, failed \in BOOLEAN : AddKnowledge(<<d>>, failed)

Next ==
    \/ \E p \in Procs, cmd \in Commands, name \in Names : BeginCall(p, cmd, name)
    \/ Steps(ConcOutputs)

SerialNext ==
    \/ \E p \in Procs, cmd \in Commands, name \in Names :
          BeginCallSerial(p, cmd, name)
    \/ Steps(Outputs)

Spec == Init /\ [][Next]_vars

SerialSpec == Init /\ [][SerialNext]_vars

-----------------------------------------------------------------------------
(* Settings.from_env as a state machine *)

AgentOff ==
    /\ vector_store = "None"
    /\ db = "None"
    /\ tools = <<>>
    /\ knowledge = <<>>
    /\ store = [n \in Names |-> NoDoc]
    /\ clock = 0
    /\ pc = [p \in Procs |-> "off"]
    /\ command = [p \in Procs |-> "none"]
    /\ engagement_name = [p \in Procs |-> "none"]
    /\ output = [p \in Procs |-> "none"]
    /\ doc = [p \in Procs |-> NoDoc]
    /\ interactions = [p \in Procs |-> <<>>]
    /\ result = [p \in Procs |-> NoResult]
    /\ stdout = [p \in Procs |-> "none"]
    /\ observation = NoObservation
    /\ readVersion = [p \in Procs |-> 0]
    /\ log = [n \in Names |-> <<>>]

ConfigInit ==
    /\ environ \in Environments
    /\ dotenv \in DotenvFiles
    /\ disk \in Disks
    /\ cfg_pc = "start"
    /\ cfg_out = NoOutcome
    /\ AgentOff

\* Settings.from_env(): load_dotenv, then validation and construction
from_env ==
    /\ cfg_pc = "start"
    /\ environ' = LoadDotenv(environ, dotenv)
    /\ cfg_out' = FromEnv(environ', disk)
    /\ cfg_pc' = "done"
    /\ UNCHANGED <<dotenv, disk, agentVars>>

ConfigNext == from_env

ConfigSpec == ConfigInit /\ [][ConfigNext]_vars

-----------------------------------------------------------------------------
(* Vocabulary of the properties *)

SavedLine == "Saved interaction to Firestore for engagement: "

WarningLine == "Warning: Could not save to Firestore: "

\* the Interactions a document snapshot holds
Stored(d) == IF d.exists THEN d.data.interactions ELSE <<>>

\* caller p's call returns in this step
Returns(p) == pc[p] \in {"invoke", "write"} /\ pc'[p] = "done"

\* this step leaves the record of p's engagement name holding what p read plus
\* exactly one Interaction, that of p's call, and leaves every other record alone
AppendedOne(p) ==
    LET k == engagement_name[p]
        old == Stored(doc[p])
        new == Stored(store'[k])
    IN  /\ \A n \in Names \ {k} : store'[n] = store[n]
        /\ store'[k].exists
        /\ Len(new) = Len(old) + 1
        /\ SubSeq(new, 1, Len(old)) = old
        /\ new[Len(new)].command = command[p]
        /\ new[Len(new)].response = result'[p].response

\* the orchestrator invocation of p's call raised
OrchestratorFailed(r) ==
    /\ ~r.success
    /\ r.error \in {ErrorMsg(e) : e \in Exceptions \cup {"ToolError"}}

-----------------------------------------------------------------------------
(* C1 *)

\* C1 as stated: every call that returns success=True has appended exactly one
\* Interaction to the record of its engagement name and to no other record, and
\* every call that returns success=False has appended none.
C1_EverySuccessAppends ==
    [][\A p \in Procs : Returns(p) =>
          IF result'[p].success THEN AppendedOne(p) ELSE store' = store]_vars

\* C1 amended: a call that returns success=True has appended exactly one
\* Interaction to the record of its engagement name (and changed no other
\* record) when self.db is set and doc_ref.get and doc_ref.set succeeded, and has
\* appended nothing when self.db is None or a Firestore call failed; a call that
\* returns success=False has appended nothing.
C1_SuccessAppendsWhenSaved ==
    [][\A p \in Procs : Returns(p) =>
          IF result'[p].success /\ DbAvailable(db) /\ stdout'[p] = SavedLine
          THEN AppendedOne(p)
          ELSE store' = store]_vars

C1_Witness ==
    \E p \in Procs :
        /\ pc[p] = "done" /\ result[p].success /\ stdout[p] = SavedLine
        /\ Len(Stored(store[engagement_name[p]])) = 1
        /\ \E q \in Procs : pc[q] = "done" /\ ~result[q].success

-----------------------------------------------------------------------------
(* C2 *)

\* C2: with calls that do not overlap and a store that is available, the record
\* of every engagement name holds exactly one Interaction per successful saved
\* call against that name, the i-th carrying the command and the response of the
\* i-th call; a name without such a call has no record, and the first call
\* creates the record with one Interaction.
C2_SerialCallsAppendInOrder ==
    DbAvailable(db) =>
        \A k \in Names :
            LET ints == Stored(store[k])
            IN  /\ store[k].exists <=> log[k] # <<>>
                /\ Len(ints) = Len(log[k])
                /\ \A i \in 1..Len(ints) :
                      <<ints[i].command, ints[i].response>> = log[k][i]

C2_Witness ==
    /\ DbAvailable(db)
    /\ \A p \in Procs : Idle(p)
    /\ \E k \in Names :
          /\ Len(log[k]) = 2
          /\ log[k][1] # log[k][2]
          /\ Len(Stored(store[k])) = 2

-----------------------------------------------------------------------------
(* C3 *)

\* C3: when self.db is None, or a Firestore call of _save_interaction fails, a
\* call whose orchestrator invocation succeeded returns success=True with the
\* response, and the step leaves the store as it was; with self.db None no step
\* changes the store.
C3_StoreFailureKeepsSuccess ==
    [][/\ ~DbAvailable(db) => store' = store
       /\ \A p \in Procs :
             (/\ Returns(p)
              /\ ~OrchestratorFailed(result'[p])
              /\ stdout'[p] # SavedLine)
             => /\ result'[p].success
                /\ pc[p] = "write" => result'[p].response = output[p]
                /\ result'[p].response \in Outputs
                /\ store' = store]_vars

C3_Witness ==
    \E p \in Procs :
        /\ pc[p] = "done" /\ result[p].success /\ stdout[p] = WarningLine
        /\ ~store[engagement_name[p]].exists

-----------------------------------------------------------------------------
(* C4 *)

C4_Shape(p) ==
    /\ pc[p] # "raised"
    /\ pc[p] = "done" =>
          /\ result[p].engagement = engagement_name[p]
          /\ IF result[p].success
             THEN DOMAIN result[p] =
                      {"success", "response", "engagement", "timestamp"}
             ELSE /\ DOMAIN result[p] =
                        {"success", "error", "engagement", "timestamp"}
                  /\ stdout[p] = "Error processing command: "
                  /\ clock < MaxCalls =>
                        ENABLED (\E c \in Commands, n \in Names : BeginCall(p, c, n))

C4_Step(p) ==
    (pc[p] = "invoke" /\ pc'[p] # "write" /\ stdout'[p] = "Error processing command: ")
        => /\ ~result'[p].success
           /\ store' = store
           /\ log' = log

\* C4: handle_command never raises; when the orchestrator invocation raises, the
\* call returns success=False with an error, the supplied engagement name and a
\* timestamp and without a response, and nothing is saved; when it succeeds the
\* result has success=True and a response and no error; after a failed call the
\* same caller can start the next call.
C4_NeverRaises ==
    /\ [](\A p \in Procs : C4_Shape(p))
    /\ [][\A p \in Procs : C4_Step(p)]_vars

C4_Witness ==
    \E p, q \in Procs :
        /\ pc[p] = "done" /\ ~result[p].success
        /\ pc[q] = "done" /\ result[q].success
        /\ result[q].timestamp > result[p].timestamp

-----------------------------------------------------------------------------
(* C5 *)

\* C5: doc_ref.set writes the whole record from what doc_ref.get returned: when
\* another call has set the same record between p's get and p's set, p's set
\* still succeeds and p returns success=True, the record then holds exactly what
\* p read plus p's Interaction, and it holds fewer Interactions than the number
\* of calls that saved to it.
C5_LastWriterWins ==
    [][\A p \in Procs :
          LET k == DocRef(engagement_name[p])
          IN  (/\ pc[p] = "write"
               /\ Returns(p)
               /\ stdout'[p] = SavedLine
               /\ Len(log[k]) > readVersion[p])
              => /\ result'[p].success
                 /\ AppendedOne(p)
                 /\ Len(Stored(store'[k])) < Len(log'[k])]_vars

C5_Witness ==
    /\ clock = 2
    /\ \E k \in Names :
          /\ \A p \in Procs :
                /\ pc[p] = "done" /\ result[p].success
                /\ stdout[p] = SavedLine /\ engagement_name[p] = k
          /\ Len(log[k]) = 2
          /\ Len(Stored(store[k])) = 1

-----------------------------------------------------------------------------
(* C6 *)

\* C6 as stated: the Interactions of a record in a state are a prefix of its
\* Interactions in every later state.
C6_AppendOnly ==
    [][\A k \in Names : IsPrefix(Stored(store[k]), Stored(store'[k]))]_vars

\* a caller sets a record that another call has set since the caller read it
StaleWrite ==
    \E p \in Procs :
        /\ pc[p] = "write"
        /\ Returns(p)
        /\ Len(log[DocRef(engagement_name[p])]) > readVersion[p]

\* C6 amended: the Interactions of a record are a prefix of its Interactions
\* after every step, except a doc_ref.set by a call that read the record before
\* another call set it (calls on the same name that overlap); calls that do not
\* overlap only ever append.
C6_AppendOnlyUnlessStale ==
    [][StaleWrite \/
       \A k \in Names : IsPrefix(Stored(store[k]), Stored(store'[k]))]_vars

C6_Witness ==
    \E k \in Names :
        /\ Len(Stored(store[k])) = 2
        /\ Len(log[k]) = 2

-----------------------------------------------------------------------------
(* C7 *)

C7_Registry ==
    /\ "knowledge_search" \in Range(tools) <=> vector_store # "None"
    /\ "vulnerability_scan" \in Range(tools)
    /\ "get_engagement_context" \in Range(tools)
    /\ \A i, j \in 1..Len(tools) : tools[i] = tools[j] => i = j

\* C7: the registry holds knowledge_search exactly when the vector store was
\* initialized, always holds vulnerability_scan and get_engagement_context,
\* holds no name twice, and no step changes it.
C7_RegistryFixed ==
    /\ []C7_Registry
    /\ [][tools' = tools]_vars

C7_Witness ==
    /\ "knowledge_search" \in Range(tools)
    /\ ~DbAvailable(db)
    /\ knowledge # <<>>
    /\ \E p \in Procs : pc[p] = "done" /\ result[p].success

-----------------------------------------------------------------------------
(* C8 *)

Supplied(name) == environ[name]

Absent(name) == ~Supplied(name).set

AbsentOrEmpty(name) == ~Supplied(name).set \/ Supplied(name).val = <<>>

ExpectedSettings ==
    Settings(Supplied("OPENAI_API_KEY").val,
             [parts |-> SelectSeq(Supplied("FIREBASE_CREDENTIALS_PATH").val,
                                  LAMBDA seg : seg # ".")],
             IF Supplied("OPENAI_MODEL").set
             THEN Supplied("OPENAI_MODEL").val ELSE <<"gpt-4">>,
             IF Supplied("CHROMADB_PERSIST_DIR").set
             THEN [parts |-> SelectSeq(Supplied("CHROMADB_PERSIST_DIR").val,
                                       LAMBDA seg : seg # ".")]
             ELSE [parts |-> <<"chroma_db">>])

CredentialsMissingOnDisk ==
    LET parts == SelectSeq(Supplied("FIREBASE_CREDENTIALS_PATH").val,
                           LAMBDA seg : seg # ".")
    IN  parts # <<>> /\ parts \notin disk

\* C8 as stated: from_env raises ConfigError when OPENAI_API_KEY or
\* FIREBASE_CREDENTIALS_PATH is not in the environment or the credential path
\* does not exist, and otherwise returns the Settings of the supplied values and
\* defaults.
C8_MissingMeansUnset ==
    cfg_pc = "done" =>
        IF \/ Absent("OPENAI_API_KEY")
           \/ Absent("FIREBASE_CREDENTIALS_PATH")
           \/ CredentialsMissingOnDisk
        THEN cfg_out.raised /\ cfg_out.error = "ConfigError"
        ELSE ~cfg_out.raised /\ cfg_out.value = ExpectedSettings

\* C8 amended: from_env raises ConfigError when OPENAI_API_KEY or
\* FIREBASE_CREDENTIALS_PATH is not in the environment or is the empty string,
\* or the credential path does not exist, and otherwise returns the Settings of
\* the supplied values and defaults.
C8_MissingMeansUnsetOrEmpty ==
    cfg_pc = "done" =>
        IF \/ AbsentOrEmpty("OPENAI_API_KEY")
           \/ AbsentOrEmpty("FIREBASE_CREDENTIALS_PATH")
           \/ CredentialsMissingOnDisk
        THEN cfg_out.raised /\ cfg_out.error = "ConfigError"
        ELSE ~cfg_out.raised /\ cfg_out.value = ExpectedSettings

C8_Witness ==
    /\ cfg_pc = "done"
    /\ ~cfg_out.raised
    /\ cfg_out.value.openai_model = <<"gpt-4">>
    /\ cfg_out.value.chromadb_persist_dir = [parts |-> <<"chroma_db">>]
    /\ cfg_out.value.firebase_credentials_path = [parts |-> <<"cred.json">>]
    /\ dotenv["OPENAI_API_KEY"].set

-----------------------------------------------------------------------------
(* C9 *)

\* C9: whatever a tool of the registry is called with and whatever its backend
\* does, it returns a text, an error text when its backend call failed, and no
\* call fails because of a tool.
C9_ToolsReturnText ==
    /\ observation # NoObservation =>
          /\ ~observation.out.raised
          /\ observation.out.kind \in STRING
          /\ observation.failed => observation.out.kind \in ErrorKinds
          /\ (observation.tool = "get_engagement_context" /\ ~DbAvailable(db))
                => observation.out.kind = "Firestore not available"
    /\ \A p \in Procs :
          /\ pc[p] # "raised"
          /\ pc[p] = "done" /\ ~result[p].success
                => result[p].error # ErrorMsg("ToolError")

C9_Witness ==
    /\ observation # NoObservation
    /\ observation.failed
    /\ observation.tool = "knowledge_search"
    /\ pc[observation.by] = "invoke"
    /\ \E q \in Procs : pc[q] = "done" /\ result[q].success

-----------------------------------------------------------------------------
(* C10 *)

\* C10: a step changes the record of a name only when it is the doc_ref.set of
\* a call for that name; tool calls change no record; every record is stored
\* under its own engagement_name.
C10_OnlyOwnRecord ==
    [][/\ \A k \in Names :
             /\ store'[k] # store[k] =>
                   \E p \in Procs :
                       pc[p] = "write" /\ Returns(p) /\ engagement_name[p] = k
             /\ store'[k].exists => store'[k].data.engagement_name = k
       /\ observation' # observation => store' = store]_vars

C10_Witness ==
    /\ store["e2"].exists
    /\ ~store["e1"].exists
    /\ observation # NoObservation
    /\ observation.tool = "get_engagement_context"
    /\ observation.out.kind = "No existing data for engagement: "
    /\ \E p \in Procs : pc[p] = "done" /\ stdout[p] = SavedLine

====
